---------------------------- MODULE Spec2Model ----------------------------
(***************************************************************************)
(* The session middleware of mach (modules/middleware/session.js).         *)
(*                                                                         *)
(* Strings are sequences of byte values.  JavaScript values that the code  *)
(* tests for truthiness or compares with === are records [t, v]: t is the  *)
(* type tag and v the bytes of a string or the content of a session.       *)
(***************************************************************************)
EXTENDS Integers, Sequences, FiniteSets, Bags, TLC

VARIABLES self, warnings, served, clock, jar, jarSession, reqs, probe

vars == <<self, warnings, served, clock, jar, jarSession, reqs, probe>>

-----------------------------------------------------------------------------
(* Bounds of the model. *)

\* Requests a behaviour serves.
MaxRequests == 2
\* Length of the content of the largest session a handler stores.
MaxFill == 3065
\* Length of the longest cookie value whose bits are flipped.
MaxFlipLen == 16

\* session.js:6
MAX_COOKIE_SIZE == 4096

-----------------------------------------------------------------------------
(* JavaScript values. *)

Undefined == [t |-> "undefined", v |-> <<>>]
Null == [t |-> "null", v |-> <<>>]
Str(s) == [t |-> "str", v |-> s]
Obj(c) == [t |-> "obj", v |-> c]

\* if (x), x && y, x || y, !x: objects and non-empty strings are truthy.
Truthy(x) == x.t = "obj" \/ (x.t = "str" /\ x.v # <<>>)

-----------------------------------------------------------------------------
(* utils.encodeBase64 / utils.decodeBase64: standard base64 of the bytes,  *)
(* decoded the way a Node Buffer decodes it: decoding stops at the first   *)
(* "=", bytes outside the alphabet are skipped, and the unused low bits of *)
(* a final partial group are dropped.                                      *)

B64Char(x) ==
  IF x < 26 THEN 65 + x
  ELSE IF x < 52 THEN 71 + x
  ELSE IF x < 62 THEN x - 4
  ELSE IF x = 62 THEN 43 ELSE 47

unbase64(c) ==
  IF c >= 65 /\ c <= 90 THEN c - 65
  ELSE IF c >= 97 /\ c <= 122 THEN c - 71
  ELSE IF c >= 48 /\ c <= 57 THEN c + 4
  ELSE IF c = 43 THEN 62
  ELSE IF c = 47 THEN 63 ELSE -1

Shift(e) == IF e = 0 THEN 1 ELSE IF e = 1 THEN 64 ELSE IF e = 2 THEN 4096 ELSE 262144

encodeBase64(s) ==
  LET n == Len(s)
      at(i) == IF i <= n THEN s[i] ELSE 0
      ch(i) ==
        LET k == (i - 1) \div 4
            j == (i - 1) % 4
            triple == at(3 * k + 1) * 65536 + at(3 * k + 2) * 256 + at(3 * k + 3)
        IN IF (j = 2 /\ 3 * k + 2 > n) \/ (j = 3 /\ 3 * k + 3 > n)
           THEN 61
           ELSE B64Char((triple \div Shift(3 - j)) % 64)
  IN [i \in 1..(4 * ((n + 2) \div 3)) |-> ch(i)]

decodeBase64(c) ==
  LET pads == {i \in 1..Len(c) : c[i] = 61}
      stop == IF pads = {} THEN Len(c)
              ELSE (CHOOSE i \in pads : \A j \in pads : i <= j) - 1
      q == SelectSeq(SubSeq(c, 1, stop), LAMBDA x : unbase64(x) >= 0)
      m == Len(q)
      at(i) == IF i <= m THEN unbase64(q[i]) ELSE 0
      n == 3 * (m \div 4) + (IF m % 4 = 2 THEN 1 ELSE IF m % 4 = 3 THEN 2 ELSE 0)
      by(i) ==
        LET k == (i - 1) \div 3
            j == (i - 1) % 3
            triple == at(4 * k + 1) * 262144 + at(4 * k + 2) * 4096
                        + at(4 * k + 3) * 64 + at(4 * k + 4)
        IN (triple \div (IF j = 0 THEN 65536 ELSE IF j = 1 THEN 256 ELSE 1)) % 256
  IN [i \in 1..n |-> by(i)]

-----------------------------------------------------------------------------
(* utils.makeHash: a digest of fixed length in lowercase hexadecimal: the   *)
(* bytes, each weighted by its position, summed modulo a prime.            *)

HashWeight(i) == 1 + ((i * i + 11 * i) % 32748)

HexDigit(d) == IF d < 10 THEN 48 + d ELSE 87 + d

makeHash(s) ==
  LET n == Len(s)
      terms == [i \in 1..n |-> 1 + ((s[i] * HashWeight(i)) % 32749)]
      h == (7 + 31 * n + BagCardinality(terms)) % 32749
  IN <<HexDigit(h \div 4096), HexDigit((h \div 256) % 16),
       HexDigit((h \div 16) % 16), HexDigit(h % 16)>>

-----------------------------------------------------------------------------
(* Store: the cookie store.  save serializes the session into the token    *)
(* and load parses it back; a token that is no serialized session loads    *)
(* as null.  Whether a call resolves or rejects is left to each step.      *)

StoreSave(session) == <<123>> \o session.v \o <<125>>

StoreLoad(data) ==
  IF Len(data) >= 2 /\ data[1] = 123 /\ data[Len(data)] = 125
  THEN Obj(SubSeq(data, 2, Len(data) - 1))
  ELSE Null

-----------------------------------------------------------------------------
(* Signing and verification (session.js:115-148). *)

\* String.prototype.lastIndexOf('--'): the 0-based index, -1 if absent.
lastIndexOf(value) ==
  LET hits == {i \in 1..(Len(value) - 1) : value[i] = 45 /\ value[i + 1] = 45}
  IN IF hits = {} THEN -1
     ELSE (CHOOSE i \in hits : \A j \in hits : j <= i) - 1

\* String.prototype.substring(from, to): arguments clamped to 0..length
\* and swapped when from > to.
substring(value, from, to) ==
  LET clamp(x) == IF x < 0 THEN 0 ELSE IF x > Len(value) THEN Len(value) ELSE x
      a == clamp(from)
      b == clamp(to)
  IN IF a <= b THEN SubSeq(value, a + 1, b) ELSE SubSeq(value, b + 1, a)

\* _makeHash leaving the secret out.
_makeHashUnkeyed(data, secret) == makeHash(data)

_makeHash(data, secret) ==
  makeHash(IF Truthy(secret) THEN data \o secret.v ELSE data)

\* session.js:119, the value encodeSession builds from the store's token.
SignedCookie(data, secret) ==
  encodeBase64(data \o <<45, 45>> \o _makeHash(data, secret))

\* decodeCookie splitting at the first "--" instead of the last.
decodeCookieFirstIndex(cookie, secret) ==
  LET value == decodeBase64(cookie)
      hits == {i \in 1..(Len(value) - 1) : value[i] = 45 /\ value[i + 1] = 45}
      index == IF hits = {} THEN -1
               ELSE (CHOOSE i \in hits : \A j \in hits : i <= j) - 1
      data == substring(value, 0, index)
      hash == substring(value, index + 2, Len(value))
  IN IF hash = _makeHash(data, secret)
     THEN [load |-> TRUE, data |-> data]
     ELSE [load |-> FALSE, data |-> <<>>]

\* decodeCookie verifying the hash only when a secret is configured.
decodeCookieUnlessSecret(cookie, secret) ==
  LET value == decodeBase64(cookie)
      index == lastIndexOf(value)
      data == substring(value, 0, index)
      hash == substring(value, index + 2, Len(value))
  IN IF ~Truthy(secret) \/ hash = _makeHash(data, secret)
     THEN [load |-> TRUE, data |-> data]
     ELSE [load |-> FALSE, data |-> <<>>]

\* session.js:133-144: what decodeCookie does with a cookie value: it calls
\* Store.load with the payload, or returns null.
decodeCookie(cookie, secret) ==
  LET value == decodeBase64(cookie)
      index == lastIndexOf(value)
      data == substring(value, 0, index)
      hash == substring(value, index + 2, Len(value))
  IN IF hash = _makeHash(data, secret)
     THEN [load |-> TRUE, data |-> data]
     ELSE [load |-> FALSE, data |-> <<>>]

\* encodeSession without the size check.
encodeSessionUnchecked(data, secret) ==
  [thrown |-> FALSE, cookie |-> SignedCookie(data, secret)]

\* session.js:119-124: what encodeSession does with the token the store
\* resolved: it throws, or returns the cookie value.
encodeSession(data, secret) ==
  LET cookie == SignedCookie(data, secret)
  IN IF Len(cookie) > MAX_COOKIE_SIZE
     THEN [thrown |-> TRUE, cookie |-> <<>>]
     ELSE [thrown |-> FALSE, cookie |-> cookie]

-----------------------------------------------------------------------------
(* The environment: options, clients and handlers. *)

Slots == {1, 2}

Secrets == {Undefined, Str(<<107>>)}

ExpireAfters == {-1, 0, 1}

Options == [secret : Secrets, expireAfter : ExpireAfters]

Fill(n) == [i \in 1..n |-> 97]

\* The sessions a handler leaves on the request.
HandlerSessions == {Undefined, Null, Obj(<<>>), Obj(<<97>>), Obj(<<45, 45>>)}

\* Sessions whose cookie values straddle the size limit.
LargeSessions == {Obj(<<>>), Obj(Fill(MaxFill - 1)), Obj(Fill(MaxFill))}

\* Bit b of byte i of a cookie value flipped.
Flip(c, i, b) ==
  LET w == IF b = 0 THEN 1 ELSE IF b = 1 THEN 2 ELSE IF b = 2 THEN 4
           ELSE IF b = 3 THEN 8 ELSE IF b = 4 THEN 16 ELSE IF b = 5 THEN 32
           ELSE IF b = 6 THEN 64 ELSE 128
  IN [c EXCEPT ![i] = IF (c[i] \div w) % 2 = 1 THEN c[i] - w ELSE c[i] + w]

\* A cookie value with its "=" padding stripped.
Unpadded(c) == SelectSeq(c, LAMBDA x : x # 61)

\* Cookie values a client makes up: the empty string and a value without
\* delimiter.
Crafted == {Str(<<>>), Str(encodeBase64(<<97, 98>>))}

\* The cookie values a client presents: none, the one it holds (as it got
\* it, or without padding), or one it made up.
Presented ==
  {Undefined} \cup Crafted
    \cup (IF jar.t = "str" THEN {jar, Str(Unpadded(jar.v))} ELSE {})

\* Cookie values this middleware issued to clients before: what
\* encodeSession builds for their sessions.
Issued == {Str(SignedCookie(StoreSave(s), self._secret)) : s \in {Obj(<<>>), Obj(<<97>>)}}

\* The cookie values of requests that overlap: none, one without valid
\* signature, or one issued before.
PresentedAtOnce == {Undefined, Str(encodeBase64(<<97, 98>>))} \cup Issued

\* The sessions the handlers of overlapping requests leave, besides the one
\* they found.
OverlapSessions == {Null, Obj(<<97>>)}

-----------------------------------------------------------------------------
(* State. *)

SessionFrame ==
  [pc |-> "apply", cookie |-> Undefined, decoded |-> Undefined,
   saved |-> Undefined, newCookie |-> Undefined]

HandlerFrame == [SessionFrame EXCEPT !.pc = "handler"]

\* A request: request.cookies[name], request.session, the chain of depth
\* Session middlewares in front of the handler, the frames of the calls in
\* progress, the settled promise travelling back (ret), the Set-Cookie
\* headers of the response and the lines of request.error; then the
\* history of the request: the arguments of Store.load and Store.save, the
\* handler's invocations and what it saw, and the events in order.
IdleReq ==
  [st |-> "idle", cookies |-> Undefined, session |-> Undefined, depth |-> 1,
   frames |-> <<>>, ret |-> "none", headers |-> <<>>, error |-> <<>>,
   loads |-> <<>>, saves |-> <<>>, handlerCalls |-> 0, observed |-> <<>>,
   events |-> <<>>]

\* One run of encodeSession and decodeCookie on their own: the token and
\* secret encoded, the cookie value built, the value presented (flipped:
\* with one bit changed; crafted: made up by a client), and what
\* decodeCookie did with it.
IdleProbe ==
  [pc |-> "idle", encSecret |-> Undefined, data |-> <<>>, cookie |-> <<>>,
   flipped |-> FALSE, crafted |-> FALSE, presented |-> <<>>,
   decSecret |-> Undefined, load |-> FALSE, loaded |-> <<>>]

Init ==
  /\ self = [constructed |-> FALSE, _secret |-> Undefined, _name |-> "_session",
             _path |-> "/", _domain |-> Undefined, _isSecure |-> FALSE,
             _expireAfter |-> 0, _isHttpOnly |-> TRUE]
  /\ warnings = 0
  /\ served = 0
  /\ clock = 0
  /\ jar = Undefined
  /\ jarSession = Undefined
  /\ reqs = [r \in Slots |-> IdleReq]
  /\ probe = IdleProbe

Top(r) == reqs[r].frames[Len(reqs[r].frames)]

At(r, pc) == reqs[r].frames # <<>> /\ Top(r).pc = pc

\* request.call(app): the next middleware of the chain, or the handler.
Callee(req) == IF Len(req.frames) < req.depth THEN SessionFrame ELSE HandlerFrame

SetTop(req, f) == [req EXCEPT !.frames[Len(req.frames)] = f]

Call(req, f) == [req EXCEPT !.frames = Append(SetTop(req, f).frames, Callee(req))]

Pop(req) == [req EXCEPT !.frames = SubSeq(req.frames, 1, Len(req.frames) - 1)]

Log(req, e) == [req EXCEPT !.events = Append(req.events, e)]

-----------------------------------------------------------------------------
(* Actions. *)

Quiet == \A q \in Slots : reqs[q].st = "idle"

\* The constructor with the test of the secret inverted.
SessionWarnsOnSecret(options) ==
  /\ ~self.constructed
  /\ self' = [constructed |-> TRUE, _secret |-> options.secret,
              _name |-> "_session", _path |-> "/", _domain |-> Undefined,
              _isSecure |-> FALSE,
              _expireAfter |-> options.expireAfter, _isHttpOnly |-> TRUE]
  /\ warnings' = IF Truthy(options.secret) THEN warnings + 1 ELSE warnings
  /\ UNCHANGED <<served, clock, jar, jarSession, reqs, probe>>

\* session.js:30-65: new Session(app, options).
Session(options) ==
  /\ ~self.constructed
  /\ self' = [constructed |-> TRUE, _secret |-> options.secret,
              _name |-> "_session", _path |-> "/", _domain |-> Undefined,
              _isSecure |-> FALSE,
              _expireAfter |-> options.expireAfter, _isHttpOnly |-> TRUE]
  /\ warnings' = IF ~Truthy(options.secret) THEN warnings + 1 ELSE warnings
  /\ UNCHANGED <<served, clock, jar, jarSession, reqs, probe>>

\* A request enters the chain of depth Session middlewares: after the
\* previous one was answered or, with overlap, while others are in progress.
NewRequest(r, cookie, depth, overlap) ==
  /\ self.constructed
  /\ served < MaxRequests
  /\ reqs[r].st = "idle"
  /\ overlap \/ (Quiet /\ r = 1)
  /\ reqs' = [reqs EXCEPT ![r] =
       [IdleReq EXCEPT !.st = "active", !.cookies = cookie, !.depth = depth,
                       !.frames = <<SessionFrame>>]]
  /\ served' = served + 1
  /\ clock' = clock + 1000
  /\ UNCHANGED <<self, warnings, jar, jarSession, probe>>

\* apply without the test of request.session.
applyUnguarded(r, threw) ==
  /\ At(r, "apply")
  /\ LET req == reqs[r]
         cookie == req.cookies
         dec == decodeCookie(cookie.v, self._secret)
     IN /\ threw => (Truthy(cookie) /\ dec.load)
        /\ reqs' = [reqs EXCEPT ![r] =
          IF ~Truthy(cookie)
          THEN SetTop(req, [Top(r) EXCEPT !.pc = "attach", !.cookie = cookie,
                                          !.decoded = cookie])
          ELSE IF dec.load /\ threw
          THEN [Log(Log(Pop(req), "load"), "loadThrown")
                  EXCEPT !.loads = Append(req.loads, dec.data), !.ret = "thrown"]
          ELSE IF dec.load
          THEN [Log(SetTop(req, [Top(r) EXCEPT !.pc = "loading", !.cookie = cookie]),
                    "load")
                  EXCEPT !.loads = Append(req.loads, dec.data)]
          ELSE Log(SetTop(req, [Top(r) EXCEPT !.pc = "attach", !.cookie = cookie,
                                              !.decoded = Null]),
                   "badSignature")]
  /\ UNCHANGED <<self, warnings, served, clock, jar, jarSession, probe>>

\* session.js:67-78, up to the promise that decodeCookie returns.  Store.load
\* returns a promise, or throws (threw): the exception leaves decodeCookie
\* and apply before any promise exists.
apply(r, threw) ==
  /\ At(r, "apply")
  /\ LET req == reqs[r]
         cookie == req.cookies
         dec == decodeCookie(cookie.v, self._secret)
     IN /\ threw => (~Truthy(req.session) /\ Truthy(cookie) /\ dec.load)
        /\ reqs' = [reqs EXCEPT ![r] =
          IF Truthy(req.session)
          THEN Log(Call(req, [Top(r) EXCEPT !.pc = "pass"]), "pass")
          ELSE IF ~Truthy(cookie)
          THEN SetTop(req, [Top(r) EXCEPT !.pc = "attach", !.cookie = cookie,
                                          !.decoded = cookie])
          ELSE IF dec.load /\ threw
          THEN [Log(Log(Pop(req), "load"), "loadThrown")
                  EXCEPT !.loads = Append(req.loads, dec.data), !.ret = "thrown"]
          ELSE IF dec.load
          THEN [Log(SetTop(req, [Top(r) EXCEPT !.pc = "loading", !.cookie = cookie]),
                    "load")
                  EXCEPT !.loads = Append(req.loads, dec.data)]
          ELSE Log(SetTop(req, [Top(r) EXCEPT !.pc = "attach", !.cookie = cookie,
                                              !.decoded = Null]),
                   "badSignature")]
  /\ UNCHANGED <<self, warnings, served, clock, jar, jarSession, probe>>

\* The promise of Store.load resolves: with the session, or with null when
\* the store no longer has it.
LoadResolve(r, lost) ==
  /\ At(r, "loading")
  /\ LET req == reqs[r]
         data == req.loads[Len(req.loads)]
     IN reqs' = [reqs EXCEPT ![r] =
          Log(SetTop(req, [Top(r) EXCEPT !.pc = "attach",
                             !.decoded = IF lost THEN Null ELSE StoreLoad(data)]),
              IF lost THEN "loadNull" ELSE "loadResolved")]
  /\ UNCHANGED <<self, warnings, served, clock, jar, jarSession, probe>>

\* The promise of Store.load rejects.
LoadReject(r) ==
  /\ At(r, "loading")
  /\ reqs' = [reqs EXCEPT ![r] =
       Log(SetTop(reqs[r], [Top(r) EXCEPT !.pc = "loadRejected"]), "loadRejected")]
  /\ UNCHANGED <<self, warnings, served, clock, jar, jarSession, probe>>

\* The fulfilment callback attaching what was decoded, without the default.
AttachDecoded(r) ==
  /\ At(r, "attach")
  /\ LET req == reqs[r]
         session == Top(r).decoded
     IN reqs' = [reqs EXCEPT ![r] =
          Log(Call([req EXCEPT !.session = session],
                   [Top(r) EXCEPT !.pc = "calling"]),
              "attach")]
  /\ UNCHANGED <<self, warnings, served, clock, jar, jarSession, probe>>

\* session.js:78-81: the fulfilment callback attaches the session and calls
\* the app.
Attach(r) ==
  /\ At(r, "attach")
  /\ LET req == reqs[r]
         session == Top(r).decoded
     IN reqs' = [reqs EXCEPT ![r] =
          Log(Call([req EXCEPT !.session = IF Truthy(session) THEN session ELSE Obj(<<>>)],
                   [Top(r) EXCEPT !.pc = "calling"]),
              "attach")]
  /\ UNCHANGED <<self, warnings, served, clock, jar, jarSession, probe>>

\* The rejection callback logging and rejecting instead of calling the app.
DecodeFailedRejects(r) ==
  /\ At(r, "loadRejected")
  /\ LET req == reqs[r]
     IN reqs' = [reqs EXCEPT ![r] =
          [Log(Pop(req), "logDecode") EXCEPT !.ret = "error",
                  !.error = Append(req.error, "Error decoding session data")]]
  /\ UNCHANGED <<self, warnings, served, clock, jar, jarSession, probe>>

\* The rejection callback attaching {} and continuing as the fulfilment
\* callback does.
DecodeFailedAttaches(r) ==
  /\ At(r, "loadRejected")
  /\ LET req == reqs[r]
     IN reqs' = [reqs EXCEPT ![r] =
          Log(Call([req EXCEPT !.session = Obj(<<>>),
                               !.error = Append(req.error, "Error decoding session data")],
                   [Top(r) EXCEPT !.pc = "calling"]),
              "logDecode")]
  /\ UNCHANGED <<self, warnings, served, clock, jar, jarSession, probe>>

\* session.js:105-108: the rejection callback logs and calls the app.
DecodeFailed(r) ==
  /\ At(r, "loadRejected")
  /\ LET req == reqs[r]
     IN reqs' = [reqs EXCEPT ![r] =
          Log(Call([req EXCEPT !.error = Append(req.error, "Error decoding session data")],
                   [Top(r) EXCEPT !.pc = "recall"]),
              "logDecode")]
  /\ UNCHANGED <<self, warnings, served, clock, jar, jarSession, probe>>

\* The downstream handler is invoked and sees the request.
HandlerInvoke(r) ==
  /\ At(r, "handler")
  /\ LET req == reqs[r]
     IN reqs' = [reqs EXCEPT ![r] =
          [Log(SetTop(req, [Top(r) EXCEPT !.pc = "handling"]), "handler")
             EXCEPT !.handlerCalls = req.handlerCalls + 1,
                    !.observed = Append(req.observed, req.session)]]
  /\ UNCHANGED <<self, warnings, served, clock, jar, jarSession, probe>>

\* The handler leaves a session on the request and its promise resolves
\* with the response or rejects.
HandlerReturn(r, session, ok) ==
  /\ At(r, "handling")
  /\ reqs' = [reqs EXCEPT ![r] =
       [Log(Pop(reqs[r]), IF ok THEN "handlerResolved" ELSE "handlerRejected")
          EXCEPT !.session = session,
                 !.ret = IF ok THEN "response" ELSE "error"]]
  /\ UNCHANGED <<self, warnings, served, clock, jar, jarSession, probe>>

\* session.js:73 and 107: the promise of the app is returned as it is.
PassThrough(r) ==
  /\ At(r, "pass") \/ At(r, "recall")
  /\ reqs[r].ret # "none"
  /\ reqs' = [reqs EXCEPT ![r] = Pop(reqs[r])]
  /\ UNCHANGED <<self, warnings, served, clock, jar, jarSession, probe>>

\* The handler's rejection caught by the decode rejection callback, which
\* logs and calls the app again.
HandlerFailedRecalls(r) ==
  /\ At(r, "calling")
  /\ reqs[r].ret = "error"
  /\ LET req == reqs[r]
     IN reqs' = [reqs EXCEPT ![r] =
          Log(Call([req EXCEPT !.ret = "none",
                               !.error = Append(req.error, "Error decoding session data")],
                   [Top(r) EXCEPT !.pc = "recall"]),
              "logDecode")]
  /\ UNCHANGED <<self, warnings, served, clock, jar, jarSession, probe>>

\* session.js:81: the handler rejected, or the call threw inside the
\* fulfilment callback, so the promise of apply rejects.
HandlerFailed(r) ==
  /\ At(r, "calling")
  /\ reqs[r].ret \in {"error", "thrown"}
  /\ reqs' = [reqs EXCEPT ![r] = [Pop(reqs[r]) EXCEPT !.ret = "error"]]
  /\ UNCHANGED <<self, warnings, served, clock, jar, jarSession, probe>>

\* session.js:81-82 and 116-118: the handler's response arrives; a truthy
\* session is handed to Store.save, which returns a promise or throws
\* (threw): the exception leaves encodeSession and the callback of line 81,
\* whose promise rejects.
Encode(r, threw) ==
  /\ At(r, "calling")
  /\ reqs[r].ret = "response"
  /\ threw => Truthy(reqs[r].session)
  /\ LET req == reqs[r]
     IN reqs' = [reqs EXCEPT ![r] =
          IF Truthy(req.session) /\ threw
          THEN [Log(Log(Pop(req), "save"), "saveThrown")
                  EXCEPT !.ret = "error", !.saves = Append(req.saves, req.session)]
          ELSE IF Truthy(req.session)
          THEN [Log(SetTop(req, [Top(r) EXCEPT !.pc = "saving", !.saved = req.session]),
                    "save")
                  EXCEPT !.ret = "none", !.saves = Append(req.saves, req.session)]
          ELSE [SetTop(req, [Top(r) EXCEPT !.pc = "encoded", !.newCookie = req.session])
                  EXCEPT !.ret = "none"]]
  /\ UNCHANGED <<self, warnings, served, clock, jar, jarSession, probe>>

\* The promise of Store.save resolves with the token (session.js:118-125).
SaveResolve(r) ==
  /\ At(r, "saving")
  /\ LET enc == encodeSession(StoreSave(Top(r).saved), self._secret)
     IN reqs' = [reqs EXCEPT ![r] =
          Log(SetTop(reqs[r],
                IF enc.thrown
                THEN [Top(r) EXCEPT !.pc = "encodeRejected"]
                ELSE [Top(r) EXCEPT !.pc = "encoded", !.newCookie = Str(enc.cookie)]),
              IF enc.thrown THEN "tooLarge" ELSE "saveResolved")]
  /\ UNCHANGED <<self, warnings, served, clock, jar, jarSession, probe>>

\* The promise of Store.save rejects.
SaveReject(r) ==
  /\ At(r, "saving")
  /\ reqs' = [reqs EXCEPT ![r] =
       Log(SetTop(reqs[r], [Top(r) EXCEPT !.pc = "encodeRejected"]), "saveRejected")]
  /\ UNCHANGED <<self, warnings, served, clock, jar, jarSession, probe>>

\* session.js:83: expireAfter && new Date(Date.now() + expireAfter * 1000).
Expires(expireAfter, now) ==
  IF expireAfter # 0
  THEN [set |-> TRUE, at |-> now + expireAfter * 1000]
  ELSE [set |-> FALSE, at |-> 0]

\* The test with the negation of expires dropped.
UnchangedExpiring(newCookie, cookie, expires) == newCookie = cookie /\ expires.set

\* The test without the comparison of the values.
UnchangedNoExpiry(newCookie, cookie, expires) == ~expires.set

\* session.js:87: newCookie === cookie && !expires.
Unchanged(newCookie, cookie, expires) == newCookie = cookie /\ ~expires.set

\* The callback comparing with the cookie of the request that entered
\* apply last, as if the cookie were kept in one place for all requests.
SetCookieSharedCookie(r) ==
  /\ At(r, "encoded")
  /\ LET req == reqs[r]
         newCookie == Top(r).newCookie
         expires == Expires(self._expireAfter, clock)
         others == {q \in Slots \ {r} : reqs[q].st = "active"}
         cookie == IF others = {} THEN Top(r).cookie
                   ELSE reqs[CHOOSE q \in others : TRUE].cookies
     IN reqs' = [reqs EXCEPT ![r] =
          IF Unchanged(newCookie, cookie, expires)
          THEN [Log(Pop(req), "skipCookie") EXCEPT !.ret = "response"]
          ELSE [Log(Pop(req), "setCookie") EXCEPT !.ret = "response",
                  !.headers = Append(req.headers,
                     [name |-> self._name, value |-> newCookie, path |-> self._path,
                      domain |-> self._domain, expires |-> expires,
                      httpOnly |-> self._isHttpOnly, secure |-> self._isSecure,
                      session |-> Top(r).saved])]]
  /\ UNCHANGED <<self, warnings, served, clock, jar, jarSession, probe>>

\* session.js:83-99: the new cookie is set on the response unless it is the
\* incoming one and there is no expiry.
SetCookie(r) ==
  /\ At(r, "encoded")
  /\ LET req == reqs[r]
         newCookie == Top(r).newCookie
         expires == Expires(self._expireAfter, clock)
     IN reqs' = [reqs EXCEPT ![r] =
          IF Unchanged(newCookie, Top(r).cookie, expires)
          THEN [Log(Pop(req), "skipCookie") EXCEPT !.ret = "response"]
          ELSE [Log(Pop(req), "setCookie") EXCEPT !.ret = "response",
                  !.headers = Append(req.headers,
                     [name |-> self._name, value |-> newCookie, path |-> self._path,
                      domain |-> self._domain, expires |-> expires,
                      httpOnly |-> self._isHttpOnly, secure |-> self._isSecure,
                      session |-> Top(r).saved])]]
  /\ UNCHANGED <<self, warnings, served, clock, jar, jarSession, probe>>

\* The rejection callback logging and rejecting instead of returning the
\* response.
EncodeFailedRejects(r) ==
  /\ At(r, "encodeRejected")
  /\ LET req == reqs[r]
     IN reqs' = [reqs EXCEPT ![r] =
          [Log(Pop(req), "logEncode") EXCEPT !.ret = "error",
                  !.error = Append(req.error, "Error encoding session data")]]
  /\ UNCHANGED <<self, warnings, served, clock, jar, jarSession, probe>>

\* session.js:100-103: the rejection callback logs and returns the response.
EncodeFailed(r) ==
  /\ At(r, "encodeRejected")
  /\ LET req == reqs[r]
     IN reqs' = [reqs EXCEPT ![r] =
          [Log(Pop(req), "logEncode") EXCEPT !.ret = "response",
                  !.error = Append(req.error, "Error encoding session data")]]
  /\ UNCHANGED <<self, warnings, served, clock, jar, jarSession, probe>>

Done(r) == reqs[r].st = "active" /\ reqs[r].frames = <<>>

\* The client receives the outcome and keeps the cookie the response sets.
Receive(r) ==
  /\ Done(r)
  /\ LET h == reqs[r].headers
         kept == {i \in 1..Len(h) : h[i].value.t = "str"}
         last == CHOOSE i \in kept : \A j \in kept : j <= i
     IN /\ jar' = IF reqs[r].ret = "response" /\ kept # {} THEN h[last].value ELSE jar
        /\ jarSession' = IF reqs[r].ret = "response" /\ kept # {}
                         THEN h[last].session ELSE jarSession
  /\ reqs' = [reqs EXCEPT ![r] = IdleReq]
  /\ UNCHANGED <<self, warnings, served, clock, probe>>

\* The steps of the middleware with handlers that leave one of the given
\* sessions, in chains of the given depths, with a store whose calls throw
\* or not as given, and with or without requests that overlap.
Steps(sessions, depths, throws, overlap) ==
  \/ \E options \in Options : Session(options)
  \/ \E r \in Slots, depth \in depths :
       /\ reqs[r].st = "idle" /\ served < MaxRequests
       /\ \E cookie \in IF overlap THEN PresentedAtOnce ELSE Presented :
            NewRequest(r, cookie, depth, overlap)
  \/ \E r \in Slots, threw \in throws : apply(r, threw)
  \/ \E r \in Slots, lost \in BOOLEAN : LoadResolve(r, lost)
  \/ \E r \in Slots : LoadReject(r)
  \/ \E r \in Slots : Attach(r)
  \/ \E r \in Slots : DecodeFailed(r)
  \/ \E r \in Slots : HandlerInvoke(r)
  \/ \E r \in Slots : \E session \in sessions \cup {reqs[r].session}, ok \in BOOLEAN :
       HandlerReturn(r, session, ok)
  \/ \E r \in Slots : PassThrough(r)
  \/ \E r \in Slots : HandlerFailed(r)
  \/ \E r \in Slots, threw \in throws : Encode(r, threw)
  \/ \E r \in Slots : SaveResolve(r)
  \/ \E r \in Slots : SaveReject(r)
  \/ \E r \in Slots : SetCookie(r)
  \/ \E r \in Slots : EncodeFailed(r)
  \/ \E r \in Slots : Receive(r)

Next == Steps(HandlerSessions, {1, 2}, {FALSE}, FALSE)

Spec == Init /\ [][Next]_vars

\* The same middleware behind handlers that store large sessions.
NextLarge == Steps(LargeSessions, {1}, {FALSE}, FALSE)

SpecLarge == Init /\ [][NextLarge]_vars

\* The same middleware with a store whose calls may throw instead of
\* returning a promise.
NextThrowing == Steps(HandlerSessions, {1}, BOOLEAN, FALSE)

SpecThrowing == Init /\ [][NextThrowing]_vars

\* The same middleware serving requests that overlap: the steps of one
\* request interleave with those of the other in any order.
NextOverlap == Steps(OverlapSessions, {1}, {FALSE}, TRUE)

SpecOverlap == Init /\ [][NextOverlap]_vars

-----------------------------------------------------------------------------
(* encodeSession and decodeCookie on their own, over tokens with and       *)
(* without delimiters and over every single-bit change of the value.       *)

CodecSecrets == Secrets \cup {Str(<<>>), Str(<<98>>)}

CodecTokens ==
  {<<>>, <<45, 45>>, <<97, 45, 45, 98>>}
    \cup {StoreSave(s) : s \in {x \in HandlerSessions : Truthy(x)}}

\* encodeSession on the token a store resolved.
CodecEncode(data, secret) ==
  /\ probe.pc = "idle"
  /\ LET enc == encodeSession(data, secret)
     IN /\ ~enc.thrown
        /\ probe' = [IdleProbe EXCEPT !.pc = "encoded", !.encSecret = secret,
                                      !.data = data, !.cookie = enc.cookie,
                                      !.presented = enc.cookie]
  /\ UNCHANGED <<self, warnings, served, clock, jar, jarSession, reqs>>

\* One bit of the cookie value changes on the way.
CodecFlip(i, b) ==
  /\ probe.pc = "encoded"
  /\ Len(probe.cookie) <= MaxFlipLen
  /\ i \in 1..Len(probe.cookie)
  /\ probe' = [probe EXCEPT !.pc = "tampered", !.flipped = TRUE,
                            !.presented = Flip(probe.cookie, i, b)]
  /\ UNCHANGED <<self, warnings, served, clock, jar, jarSession, reqs>>

\* Cookie values made up by a client that knows the hash function: without
\* delimiter, with a single "-", with a wrong signature.
CodecCrafted ==
  {<<>>, encodeBase64(<<97, 98>>), encodeBase64(<<97, 45, 45, 48, 48, 48, 48>>)}
    \cup {encodeBase64(<<c>> \o _makeHash(<<>>, s)) : c \in {45, 120}, s \in CodecSecrets}

\* A client presents a value it made up.
CodecCraft(value) ==
  /\ probe.pc = "idle"
  /\ probe' = [IdleProbe EXCEPT !.pc = "crafted", !.crafted = TRUE,
                                !.presented = value]
  /\ UNCHANGED <<self, warnings, served, clock, jar, jarSession, reqs>>

\* decodeCookie on the value presented.
CodecDecode(secret) ==
  /\ probe.pc \in {"encoded", "tampered", "crafted"}
  /\ LET dec == decodeCookie(probe.presented, secret)
     IN probe' = [probe EXCEPT !.pc = "decoded", !.decSecret = secret,
                               !.load = dec.load, !.loaded = dec.data]
  /\ UNCHANGED <<self, warnings, served, clock, jar, jarSession, reqs>>

NextCodec ==
  \/ \E data \in CodecTokens, secret \in CodecSecrets : CodecEncode(data, secret)
  \/ \E i \in 1..MaxFlipLen, b \in 0..7 : CodecFlip(i, b)
  \/ \E value \in CodecCrafted : CodecCraft(value)
  \/ \E secret \in CodecSecrets : CodecDecode(secret)

SpecCodec == Init /\ [][NextCodec]_vars

-----------------------------------------------------------------------------
(* Properties. *)

Has(req, e) == \E i \in DOMAIN req.events : req.events[i] = e

EncodeLines(req) ==
  Cardinality({i \in DOMAIN req.error : req.error[i] = "Error encoding session data"})

\* The store kept its contract during the request: no call rejected and no
\* session was lost.
StoreSound(req) ==
  ~Has(req, "loadNull") /\ ~Has(req, "loadRejected") /\ ~Has(req, "saveRejected")

\* The request presents exactly the cookie value the last response set.
PresentsJar(req) == req.st = "active" /\ jar.t = "str" /\ req.cookies = jar

\* C1: the cookie a response sets carries the session the handler left, and
\* a later request that presents exactly that value, to a store that
\* resolves what it saved, has its handler see that session.
CrossRequestPersistence ==
  \A r \in Slots :
    LET req == reqs[r]
    IN /\ \A i \in DOMAIN req.headers :
            req.headers[i].value.t = "str" => req.headers[i].session = req.session
       /\ (PresentsJar(req) /\ StoreSound(req) /\ req.handlerCalls >= 1)
            => req.observed[1] = jarSession

PersistenceWitness ==
  \E r \in Slots :
    /\ PresentsJar(reqs[r]) /\ StoreSound(reqs[r])
    /\ reqs[r].handlerCalls = 1
    /\ jarSession = Obj(<<45, 45>>)
    /\ reqs[r].observed[1] = jarSession

EncodedLength(session) ==
  4 * ((Len(StoreSave(session)) + 2 + Len(makeHash(<<>>)) + 2) \div 3)

\* C3: a session cookie set on a response is at most 4096 long; a longer
\* encoded value makes the encode step fail, which is logged, and the
\* response then carries no session cookie.
SizeLimit ==
  \A r \in Slots :
    LET req == reqs[r]
    IN /\ \A i \in DOMAIN req.headers :
            req.headers[i].value.t = "str"
              => Len(req.headers[i].value.v) <= MAX_COOKIE_SIZE
       /\ Has(req, "saveResolved") => EncodedLength(req.saves[1]) <= MAX_COOKIE_SIZE
       /\ Has(req, "tooLarge")
            => /\ EncodedLength(req.saves[1]) > MAX_COOKIE_SIZE
               /\ req.headers = <<>>
               /\ req.frames = <<>>
                    => req.ret = "response" /\ EncodeLines(req) = 1

\* The client holds a cookie of exactly 4096 and the next response dropped
\* a larger one.
SizeLimitWitness ==
  /\ jar.t = "str" /\ Len(jar.v) = MAX_COOKIE_SIZE
  /\ \E r \in Slots : Done(r) /\ Has(reqs[r], "tooLarge")

\* C4: when the handler rejects, apply rejects with the same error, nothing
\* is saved, no cookie is set and the handler is not invoked again.
HandlerFailurePropagates ==
  \A r \in Slots :
    Has(reqs[r], "handlerRejected")
      => /\ reqs[r].ret = "error"
         /\ reqs[r].saves = <<>>
         /\ reqs[r].headers = <<>>
         /\ reqs[r].handlerCalls = 1

HandlerFailureWitness ==
  \E r \in Slots :
    /\ Done(r) /\ reqs[r].ret = "error"
    /\ Has(reqs[r], "logDecode")
    /\ reqs[r].depth = 1

\* C5: when the signature does not verify or Store.load rejects, the
\* handler is still invoked exactly once and apply settles as the handler
\* did.
DecodeFailOpen ==
  \A r \in Slots :
    (Has(reqs[r], "badSignature") \/ Has(reqs[r], "loadRejected"))
      => /\ reqs[r].handlerCalls <= 1
         /\ Done(r)
              => /\ reqs[r].handlerCalls = 1
                 /\ reqs[r].ret = IF Has(reqs[r], "handlerResolved")
                                  THEN "response" ELSE "error"

DecodeFailOpenWitness ==
  \E r \in Slots :
    /\ Done(r) /\ reqs[r].ret = "response"
    /\ Has(reqs[r], "loadRejected")
    /\ reqs[r].depth = 1
    /\ reqs[r].handlerCalls = 1

\* C6: when Store.save rejects or the encoded value is too long, apply logs
\* one diagnostic and resolves with the handler's response, which carries
\* no session cookie.
EncodeFailOpen ==
  \A r \in Slots :
    (Has(reqs[r], "saveRejected") \/ Has(reqs[r], "tooLarge"))
      => /\ reqs[r].headers = <<>>
         /\ EncodeLines(reqs[r]) <= 1
         /\ Done(r) => reqs[r].ret = "response" /\ EncodeLines(reqs[r]) = 1

EncodeFailOpenWitness ==
  \E r \in Slots :
    /\ Done(r) /\ reqs[r].ret = "response"
    /\ Has(reqs[r], "saveRejected")
    /\ EncodeLines(reqs[r]) = 1

\* The handler left the session it saw, the store resolved both calls and
\* the response came back.
RoundTripped(req) ==
  /\ Has(req, "loadResolved")
  /\ req.observed # <<>> /\ req.session = req.observed[1]
  /\ Has(req, "handlerResolved")

Canonical(cookie) == cookie.t = "str" /\ cookie.v = encodeBase64(decodeBase64(cookie.v))

FreshSessionSequence ==
  \A r \in Slots :
    LET req == reqs[r]
        left == /\ Done(r) /\ req.ret = "response" /\ req.session = Obj(<<>>)
                /\ self._expireAfter = 0 /\ StoreSound(req)
    IN /\ (req.st = "active" /\ req.cookies = Undefined /\ req.handlerCalls >= 1)
            => req.observed[1] = Obj(<<>>)
       /\ (left /\ req.cookies = Undefined)
            => /\ Len(req.headers) = 1
               /\ req.headers[1].value = Str(SignedCookie(StoreSave(Obj(<<>>)), self._secret))
       /\ (left /\ PresentsJar(req) /\ jarSession = Obj(<<>>))
            => req.headers = <<>>

FreshSessionWitness ==
  \E r \in Slots :
    /\ Done(r) /\ reqs[r].ret = "response" /\ reqs[r].session = Obj(<<>>)
    /\ self._expireAfter = 0 /\ StoreSound(reqs[r])
    /\ PresentsJar(reqs[r]) /\ jarSession = Obj(<<>>)
    /\ reqs[r].observed = <<Obj(<<>>)>>
    /\ reqs[r].headers = <<>>

\* The step of request r changes nothing of it but its frames and events.
PassesOn(r) ==
  /\ reqs'[r].frames = Append(SetTop(reqs[r], [Top(r) EXCEPT !.pc = "pass"]).frames,
                              Callee(reqs[r]))
  /\ [reqs'[r] EXCEPT !.frames = <<>>, !.events = <<>>]
       = [reqs[r] EXCEPT !.frames = <<>>, !.events = <<>>]

\* C9: apply on a request that has a session only calls the app and returns
\* its result: it reads no cookie, calls no store, assigns no session and
\* sets no cookie.  With two middlewares chained and the outer decode
\* succeeded, Store.load and Store.save are called at most once each and
\* the handler sees the session the outer one attached.
ReentrancyGuard ==
  /\ [][\A r \in Slots :
          (At(r, "apply") /\ Truthy(reqs[r].session) /\ reqs'[r] # reqs[r])
            => PassesOn(r)]_vars
  /\ [][\A r \in Slots :
          ((At(r, "pass") \/ At(r, "recall")) /\ reqs'[r] # reqs[r])
            => reqs'[r] = Pop(reqs[r])]_vars
  /\ [](\A r \in Slots :
          LET req == reqs[r]
          IN (req.depth = 2 /\ ~Has(req, "loadRejected"))
               => /\ Len(req.loads) <= 1 /\ Len(req.saves) <= 1
                  /\ Len(req.headers) <= 1
                  /\ req.handlerCalls <= 1
                  /\ (req.handlerCalls = 1 /\ req.frames # <<>>)
                       => req.observed[1] =
                            IF Truthy(req.frames[1].decoded)
                            THEN req.frames[1].decoded ELSE Obj(<<>>)
                  /\ Done(r) => req.handlerCalls = 1)

ReentrancyWitness ==
  \E r \in Slots :
    /\ Done(r) /\ reqs[r].depth = 2 /\ reqs[r].ret = "response"
    /\ Has(reqs[r], "pass") /\ Has(reqs[r], "loadResolved")
    /\ Len(reqs[r].loads) = 1 /\ Len(reqs[r].saves) = 1
    /\ reqs[r].observed = <<Obj(<<45, 45>>)>>

\* C10: construction without a secret warns once, and requests add no
\* warning; the middleware then signs with the hash of the payload alone
\* and accepts the cookie it produced.  With a secret it never warns.
NoSecretWarning ==
  /\ warnings = IF self.constructed /\ ~Truthy(self._secret) THEN 1 ELSE 0
  /\ \A r \in Slots :
       LET req == reqs[r]
       IN (PresentsJar(req) /\ (req.frames = <<>> \/ req.frames[1].pc # "apply"))
            => /\ req.loads # <<>>
               /\ req.loads[1] = StoreSave(jarSession)
               /\ ~Truthy(self._secret)
                    => jar.v = encodeBase64(req.loads[1] \o <<45, 45>> \o makeHash(req.loads[1]))

NoSecretWitness ==
  \E r \in Slots :
    /\ warnings = 1 /\ ~Truthy(self._secret)
    /\ Done(r) /\ PresentsJar(reqs[r]) /\ Has(reqs[r], "loadResolved")
    /\ reqs[r].observed = <<jarSession>>

\* C11: when the handler is invoked and Store.load did not reject, the
\* session it sees is never absent: it is {} when the cookie is absent, its
\* signature does not verify or Store.load resolves to null, and it is the
\* loaded session when Store.load resolves to one.
AttachedSession ==
  \A r \in Slots :
    LET req == reqs[r]
    IN (req.handlerCalls >= 1 /\ ~Has(req, "loadRejected"))
         => /\ req.observed[1].t = "obj"
            /\ (~Truthy(req.cookies) \/ Has(req, "badSignature") \/ Has(req, "loadNull"))
                 => req.observed[1] = Obj(<<>>)
            /\ (Has(req, "loadResolved") /\ StoreLoad(req.loads[1]).t = "obj")
                 => req.observed[1] = StoreLoad(req.loads[1])
            /\ \/ ~Truthy(req.cookies) \/ Has(req, "badSignature")
               \/ Has(req, "loadNull") \/ Has(req, "loadResolved")

AttachedSessionWitness ==
  \E r \in Slots :
    /\ reqs[r].handlerCalls = 1 /\ Has(reqs[r], "loadNull")
    /\ Truthy(reqs[r].cookies)
    /\ reqs[r].observed = <<Obj(<<>>)>>

\* C12: a session cookie that is set carries expires = now + expireAfter *
\* 1000 ms if and only if expireAfter > 0, and no expiry otherwise; with
\* expireAfter > 0 every response whose encoding succeeded sets the cookie.
ExpiryIffPositive ==
  \A r \in Slots :
    LET req == reqs[r]
    IN /\ \A i \in DOMAIN req.headers :
            /\ req.headers[i].expires.set <=> self._expireAfter > 0
            /\ req.headers[i].expires.set
                 => req.headers[i].expires.at = clock + self._expireAfter * 1000
       /\ (self._expireAfter > 0 /\ Done(r) /\ Has(req, "saveResolved"))
            => req.headers # <<>>

Times(req, e) == Cardinality({i \in DOMAIN req.events : req.events[i] = e})

\* Every event b of the request comes after an event a.
OnlyAfter(req, a, b) ==
  \A j \in DOMAIN req.events :
    req.events[j] = b => \E i \in 1..(j - 1) : req.events[i] = a

\* No event b of the request comes after an event a.
NeverAfter(req, a, b) ==
  \A i, j \in DOMAIN req.events :
    (req.events[i] = a /\ req.events[j] = b) => j < i

\* C13: in an execution of apply on a request without session, in front of
\* the handler, Store.load is called at most once and only before the
\* handler, the handler is invoked exactly once, Store.save is called at
\* most once and only after the handler resolved, and the cookie is set at
\* most once and only after Store.save resolved.
EventOrder ==
  \A r \in Slots :
    LET req == reqs[r]
    IN req.depth = 1
         => /\ Times(req, "load") <= 1 /\ Len(req.loads) = Times(req, "load")
            /\ NeverAfter(req, "handler", "load")
            /\ Times(req, "handler") <= 1
            /\ Done(r) => Times(req, "handler") = 1
            /\ Times(req, "save") <= 1 /\ Len(req.saves) = Times(req, "save")
            /\ OnlyAfter(req, "handlerResolved", "save")
            /\ Times(req, "setCookie") <= 1 /\ Len(req.headers) = Times(req, "setCookie")
            /\ OnlyAfter(req, "saveResolved", "setCookie")

\* C15: when the handler resolves and leaves request.session null or
\* undefined, Store.save is not called and the response carries no session
\* cookie, with or without incoming cookie; a session {} left after the
\* session was attached is saved.
EncodeOnlyTruthy ==
  \A r \in Slots :
    LET req == reqs[r]
    IN /\ (Done(r) /\ Has(req, "handlerResolved") /\ ~Truthy(req.session))
            => req.saves = <<>> /\ req.headers = <<>>
       /\ (Done(r) /\ Has(req, "handlerResolved") /\ Has(req, "attach")
             /\ req.session = Obj(<<>>))
            => req.saves = <<Obj(<<>>)>>

\* C14: when Store.load or Store.save throws instead of returning a promise,
\* apply neither throws nor rejects: after a load failure the handler is
\* still invoked, and the handler's response is returned without session
\* cookie.
SyncFailureRecovered ==
  \A r \in Slots :
    LET req == reqs[r]
    IN /\ (Done(r) /\ Has(req, "loadThrown"))
            => /\ req.handlerCalls = 1
               /\ req.ret = IF Has(req, "handlerResolved") THEN "response" ELSE "error"
       /\ (Done(r) /\ Has(req, "saveThrown"))
            => req.ret = "response" /\ req.headers = <<>>

\* C16: when the signature verifies but the promise of Store.load rejects,
\* the handler in front of which the middleware stands is invoked with
\* request.session unattached, and its outcome is returned with Store.save
\* never called and no session cookie set, whatever session the handler
\* leaves.
LoadFailurePath ==
  \A r \in Slots :
    LET req == reqs[r]
    IN (req.depth = 1 /\ Has(req, "loadRejected"))
         => /\ req.handlerCalls >= 1 => req.observed[1] = Undefined
            /\ req.saves = <<>>
            /\ req.headers = <<>>
            /\ Done(r)
                 => /\ req.handlerCalls = 1
                    /\ req.ret = IF Has(req, "handlerResolved")
                                 THEN "response" ELSE "error"

LoadFailureWitness ==
  \E r \in Slots :
    /\ Done(r) /\ reqs[r].depth = 1 /\ Has(reqs[r], "loadRejected")
    /\ reqs[r].ret = "response"
    /\ reqs[r].observed = <<Undefined>>
    /\ reqs[r].session = Obj(<<97>>)
    /\ reqs[r].saves = <<>> /\ reqs[r].headers = <<>>

\* C17: decodeCookie hands a payload p to Store.load only if the decoded
\* value is exactly p + "--" + sign(p, secret); every other value, also one
\* without any "--", yields null and Store.load is not called.
DecodeWellFormed ==
  probe.pc = "decoded"
    => LET value == decodeBase64(probe.presented)
       IN /\ probe.load
               => value = probe.loaded \o <<45, 45>> \o _makeHash(probe.loaded, probe.decSecret)
          /\ lastIndexOf(value) = -1 => ~probe.load

\* C18: the value encodeSession builds from a token, also an empty one or
\* one with "--" in it, is accepted by decodeCookie under the same secret
\* with exactly that token loaded, and rejected under a different secret.
CodecRoundTrip ==
  (probe.pc = "decoded" /\ ~probe.flipped /\ ~probe.crafted)
    => /\ probe.decSecret = probe.encSecret
            => probe.load /\ probe.loaded = probe.data
       /\ probe.decSecret # probe.encSecret => ~probe.load

\* What a secret adds to the signed text: nothing when it is unset or empty.
KeyText(secret) == IF Truthy(secret) THEN secret.v ELSE <<>>

\* C18, amended: the same, where an unset and an empty secret count as the
\* same secret: both sign the payload alone.
CodecRoundTripKeyed ==
  (probe.pc = "decoded" /\ ~probe.flipped /\ ~probe.crafted)
    => /\ KeyText(probe.decSecret) = KeyText(probe.encSecret)
            => probe.load /\ probe.loaded = probe.data
       /\ KeyText(probe.decSecret) # KeyText(probe.encSecret) => ~probe.load

CodecRoundTripWitness ==
  /\ probe.pc = "decoded" /\ ~probe.flipped /\ ~probe.crafted
  /\ probe.data = <<97, 45, 45, 98>>
  /\ Truthy(probe.encSecret) /\ probe.decSecret = probe.encSecret
  /\ probe.load /\ probe.loaded = probe.data

DecodeLines(req) ==
  Cardinality({i \in DOMAIN req.error : req.error[i] = "Error decoding session data"})

\* C20: a request whose cookie is present and whose decoding fails, by a
\* signature that does not verify or by a failure of Store.load, has
\* exactly one diagnostic written to its error log before the handler runs;
\* a request without cookie or with a valid one has none.
DecodeFailureLogged ==
  \A r \in Slots :
    LET req == reqs[r]
        failed == Has(req, "badSignature") \/ Has(req, "loadRejected")
    IN req.depth = 1
         => /\ (failed /\ req.handlerCalls >= 1)
                 => DecodeLines(req) = 1 /\ OnlyAfter(req, "logDecode", "handler")
            /\ ~failed => DecodeLines(req) = 0

\* The session apply attaches for the request when it runs alone, from the
\* request's cookie and what the store resolved for it.
AloneSession(req) ==
  LET dec == decodeCookie(req.cookies.v, self._secret)
  IN IF Truthy(req.cookies) /\ dec.load /\ ~Has(req, "loadNull")
          /\ StoreLoad(dec.data).t = "obj"
     THEN StoreLoad(dec.data)
     ELSE Obj(<<>>)

\* The cookie value apply compares and sets for the request when it runs
\* alone, from the session its handler left.
AloneCookie(req) ==
  IF Truthy(req.session)
  THEN Str(SignedCookie(StoreSave(req.session), self._secret))
  ELSE req.session

\* C19: with requests whose steps interleave, each step of apply changes
\* the request it belongs to and nothing of the others, apply never writes
\* the configuration of the middleware, and each request's attached
\* session, its handler's view of it and the decision to set or skip the
\* cookie are those of the request run alone.
RequestIsolation ==
  /\ [][\A r \in Slots :
          reqs'[r] # reqs[r] => \A q \in Slots \ {r} : reqs'[q] = reqs[q]]_vars
  /\ [][self.constructed => self' = self]_vars
  /\ [](\A r \in Slots :
          LET req == reqs[r]
          IN /\ (req.handlerCalls >= 1 /\ ~Has(req, "loadRejected"))
                  => req.observed = <<AloneSession(req)>>
             /\ (Done(r) /\ req.ret = "response" /\ Has(req, "attach")
                   /\ ~Has(req, "logEncode"))
                  => IF AloneCookie(req) = req.cookies /\ self._expireAfter = 0
                     THEN req.headers = <<>>
                     ELSE /\ Len(req.headers) = 1
                          /\ req.headers[1].value = AloneCookie(req))

\* Two requests with valid cookies in progress at once: one through with
\* its cookie skipped while the other waits for the store.
RequestIsolationWitness ==
  \E r, q \in Slots :
    /\ r # q
    /\ Done(r) /\ Has(reqs[r], "loadResolved") /\ Has(reqs[r], "skipCookie")
    /\ reqs[r].observed = <<Obj(<<97>>)>>
    /\ At(q, "loading") /\ reqs[q].cookies # reqs[r].cookies
    /\ Has(reqs[r], "handler")

=============================================================================
